---- MODULE Spec2Model ----
(***************************************************************************)
(* Model of src/format.rs: Case, Encoder, Formatter and the Formatter's    *)
(* implementation of encoding::Write.                                      *)
(*                                                                         *)
(* Bytes are integers 0..255.  A Rust String is modelled by its content,   *)
(* the sequence of its UTF-8 bytes.  The Formatter's data array is a       *)
(* sequence of Capacity bytes; Rust index idx is position idx + 1.         *)
(* A u64 is a sequence of four 16-bit limbs, most significant first.       *)
(***************************************************************************)
EXTENDS Integers, Sequences, FiniteSets, TLC

VARIABLES encoders, pc, fmt, drv, rendered, emitted

vars == <<encoders, pc, fmt, drv, rendered, emitted>>

\* data: [u8; 13]
Capacity == 13

\* longest byte pattern a direct user of the Write trait repeats
MaxPat == 2

\* number of encode calls that may be in progress at once
NumCalls == 2

Calls == 1..NumCalls

\* '0' '@' 'A' 'Z' '[' 'a' 'z' and a byte outside ASCII
Bytes == {48, 64, 65, 90, 91, 97, 122, 200}

Patterns == UNION {[1..m -> Bytes] : m \in 1..MaxPat}

Zero64 == <<0, 0, 0, 0>>

V31 == <<0, 0, 0, 31>>

V5111 == <<0, 0, 0, 5111>>

Max64 == <<65535, 65535, 65535, 65535>>

Values == {Zero64, V31, V5111, Max64}

----------------------------------------------------------------------------
(* Case *)

IsUppercase(case) ==
    CASE case = "Upper" -> TRUE
      [] case = "Lower" -> FALSE

(* Encoder *)

\* new() configured for the other case
EncoderNewUpper == [case |-> "Upper"]

EncoderNew == [case |-> "Lower"]

WithCase(case) == [case |-> case]

EncoderDefault == EncoderNew

EncoderIds == {"default", "new", "lower", "upper", "upper2"}

\* the Encoders of the model, each built by the constructor its name says
Construct(e) ==
    CASE e = "default" -> EncoderDefault
      [] e = "new"     -> EncoderNew
      [] e = "lower"   -> WithCase("Lower")
      [] e = "upper"   -> WithCase("Upper")
      [] e = "upper2"  -> WithCase("Upper")

----------------------------------------------------------------------------
(* u8::to_ascii_lowercase: self | ((is_ascii_uppercase as u8) * 0x20) *)

\* the range of upper-case letters ending one short
IsAsciiUppercaseBelowZ(u) == u >= 65 /\ u < 90

IsAsciiUppercase(u) == u >= 65 /\ u <= 90

BitOr32(u) == IF (u \div 32) % 2 = 1 THEN u ELSE u + 32

ToAsciiLowercase(u) == IF IsAsciiUppercase(u) THEN BitOr32(u) ELSE u

(* u8 as char, String::push *)

U8AsChar(u) == u

Utf8Encode(ch) ==
    IF ch < 128 THEN <<ch>> ELSE <<192 + (ch \div 64), 128 + (ch % 64)>>

StringPush(s, ch) == s \o Utf8Encode(ch)

\* the byte sink handed to render_into: one byte accepted per write call
SinkWrite(w, u) == Append(w, u)

----------------------------------------------------------------------------
(* Formatter *)

ZeroData == [i \in 1..Capacity |-> 0]

NoFormatter == [encoder |-> "none", len |-> 0, data |-> ZeroData]

FormatterNew(e) == [encoder |-> e, len |-> 0, data |-> ZeroData]

RECURSIVE RenderLoop(_, _, _)
RenderLoop(f, idx, s) ==
    IF idx >= f.len THEN s
    ELSE RenderLoop(f, idx + 1, StringPush(s, U8AsChar(f.data[idx + 1])))

Render(f) == RenderLoop(f, 0, <<>>)

RECURSIVE RenderIntoLoop(_, _, _)
RenderIntoLoop(f, idx, w) ==
    IF idx >= f.len THEN w
    ELSE RenderIntoLoop(f, idx + 1, SinkWrite(w, f.data[idx + 1]))

\* the loop started at index 1
RenderIntoFromOne(f, w) == RenderIntoLoop(f, 1, w)

RenderInto(f, w) == RenderIntoLoop(f, 0, w)

\* a rendering that consumes the buffer
RenderDrains(f) == [f EXCEPT !.len = 0]

\* render(&self) and render_into(&self, w): the Formatter after the call
RenderKeeps(f) == f

\* the conversion made whatever the case
WriteCaseAlwaysLower(case, u) == ToAsciiLowercase(u)

\* the test of the case inverted
WriteCaseInverted(case, u) == IF IsUppercase(case) THEN ToAsciiLowercase(u) ELSE u

\* the case conversion of write
WriteCase(case, u) == IF ~IsUppercase(case) THEN ToAsciiLowercase(u) ELSE u

\* a buffer that grows when it is full
WriteStoreGrows(f, u) ==
    [panic |-> FALSE,
     fmt   |-> [f EXCEPT !.data = IF f.len + 1 \in DOMAIN f.data
                                  THEN [f.data EXCEPT ![f.len + 1] = u]
                                  ELSE Append(f.data, u),
                         !.len = f.len + 1]]

\* a full buffer has its last byte overwritten before the panic
WriteStoreClobbers(f, u) ==
    IF f.len + 1 \in DOMAIN f.data
    THEN [panic |-> FALSE,
          fmt   |-> [f EXCEPT !.data[f.len + 1] = u, !.len = f.len + 1]]
    ELSE [panic |-> TRUE, fmt |-> [f EXCEPT !.data[f.len] = u]]

\* the length incremented before the store, which then lands one place on
WriteStoreAfterIncrement(f, u) ==
    IF f.len + 2 \in DOMAIN f.data
    THEN [panic |-> FALSE,
          fmt   |-> [f EXCEPT !.data[f.len + 2] = u, !.len = f.len + 1]]
    ELSE [panic |-> TRUE, fmt |-> [f EXCEPT !.len = f.len + 1]]

\* self.data[self.len] = u; self.len += 1;  the indexed store panics when
\* self.len is no index of data, before anything is assigned
WriteStore(f, u) ==
    IF f.len + 1 \in DOMAIN f.data
    THEN [panic |-> FALSE,
          fmt   |-> [f EXCEPT !.data[f.len + 1] = u, !.len = f.len + 1]]
    ELSE [panic |-> TRUE, fmt |-> f]

FormatterWrite(f, encs, u) == WriteStore(f, WriteCase(encs[f.encoder].case, u))

\* one buffer for all the Formatters of an Encoder
StoreShared(fmts, c, f) ==
    [d \in DOMAIN fmts |-> IF d = c \/ fmts[d].encoder = f.encoder THEN f ELSE fmts[d]]

\* a Formatter owns its buffer: a write changes the written Formatter only
Store(fmts, c, f) == [fmts EXCEPT ![c] = f]

----------------------------------------------------------------------------
(* encoding::encode_into: Crockford base 32, upper-case alphabet, most     *)
(* significant symbol first, "0" for zero.                                 *)

\* 0123456789ABCDEFGHJKMNPQRSTVWXYZ
UppercaseEncoding ==
    <<48, 49, 50, 51, 52, 53, 54, 55, 56, 57,
      65, 66, 67, 68, 69, 70, 71, 72, 74, 75, 77, 78,
      80, 81, 82, 83, 84, 86, 87, 88, 89, 90>>

Shr5(n) ==
    LET t2 == (n[1] % 32) * 65536 + n[2]
        t3 == (t2 % 32) * 65536 + n[3]
        t4 == (t3 % 32) * 65536 + n[4]
    IN  <<n[1] \div 32, t2 \div 32, t3 \div 32, t4 \div 32>>

RECURSIVE Symbols(_)
Symbols(n) ==
    IF n = Zero64 THEN <<>>
    ELSE Append(Symbols(Shr5(n)), UppercaseEncoding[(n[4] % 32) + 1])

EncodeInto(n) == IF n = Zero64 THEN <<48>> ELSE Symbols(n)

----------------------------------------------------------------------------
(* The driver of a Formatter: the routine that calls write.  src is the    *)
(* byte sequence it writes (repeated when cyc), k the write calls made.    *)

NoDriver == [n |-> <<>>, src |-> <<>>, cyc |-> FALSE, k |-> 0]

Input(d, i) == d.src[((i - 1) % Len(d.src)) + 1]

HasNext(d) == d.cyc \/ d.k < Len(d.src)

Init ==
    /\ encoders = [e \in EncoderIds |-> Construct(e)]
    /\ pc = [c \in Calls |-> "idle"]
    /\ fmt = [c \in Calls |-> NoFormatter]
    /\ drv = [c \in Calls |-> NoDriver]
    /\ rendered = [c \in Calls |-> <<>>]
    /\ emitted = [c \in Calls |-> <<>>]

\* Formatter::new by a caller that employs the Write trait itself, writing
\* pat once, or again and again when cyc
NewDirect(c, e, pat, cyc) ==
    /\ pc[c] = "idle"
    /\ pc' = [pc EXCEPT ![c] = "direct"]
    /\ fmt' = Store(fmt, c, FormatterNew(e))
    /\ drv' = [drv EXCEPT ![c] = [n |-> <<>>, src |-> pat, cyc |-> cyc, k |-> 0]]
    /\ UNCHANGED <<encoders, rendered, emitted>>

\* Encoder::encode, up to the call of encode_into
EncodeCall(c, e, n) ==
    /\ pc[c] = "idle"
    /\ pc' = [pc EXCEPT ![c] = "encoding"]
    /\ fmt' = Store(fmt, c, FormatterNew(e))
    /\ drv' = [drv EXCEPT ![c] = [n |-> n, src |-> EncodeInto(n), cyc |-> FALSE, k |-> 0]]
    /\ UNCHANGED <<encoders, rendered, emitted>>

\* one call of Formatter::write; what was rendered before a store is stale
Write(c) ==
    /\ pc[c] \in {"direct", "encoding"}
    /\ HasNext(drv[c])
    /\ LET r == FormatterWrite(fmt[c], encoders, Input(drv[c], drv[c].k + 1))
       IN  /\ fmt' = Store(fmt, c, r.fmt)
           /\ pc' = [pc EXCEPT ![c] = IF r.panic THEN "panicked" ELSE @]
           /\ rendered' = [rendered EXCEPT ![c] = IF r.panic THEN @ ELSE <<>>]
           /\ emitted' = [emitted EXCEPT ![c] = IF r.panic THEN @ ELSE <<>>]
    /\ drv' = [drv EXCEPT ![c].k = @ + 1]
    /\ UNCHANGED encoders

\* Encoder::encode returns the Formatter once encode_into has returned
Return(c) ==
    /\ pc[c] = "encoding"
    /\ ~HasNext(drv[c])
    /\ pc' = [pc EXCEPT ![c] = "built"]
    /\ UNCHANGED <<encoders, fmt, drv, rendered, emitted>>

DoRender(c) ==
    /\ pc[c] \in {"direct", "built"}
    /\ rendered' = [rendered EXCEPT ![c] = <<Render(fmt[c])>>]
    /\ fmt' = Store(fmt, c, RenderKeeps(fmt[c]))
    /\ UNCHANGED <<encoders, pc, drv, emitted>>

DoRenderInto(c) ==
    /\ pc[c] \in {"direct", "built"}
    /\ emitted' = [emitted EXCEPT ![c] = <<RenderInto(fmt[c], <<>>)>>]
    /\ fmt' = Store(fmt, c, RenderKeeps(fmt[c]))
    /\ UNCHANGED <<encoders, pc, drv, rendered>>

\* one Formatter, written by encode_into or by any user of the Write trait
Next ==
    \/ pc[1] = "idle" /\ \E e \in EncoderIds, pat \in Patterns : NewDirect(1, e, pat, TRUE)
    \/ pc[1] = "idle" /\ \E e \in EncoderIds, n \in Values : EncodeCall(1, e, n)
    \/ Write(1)
    \/ Return(1)
    \/ DoRender(1)
    \/ DoRenderInto(1)

Spec == Init /\ [][Next]_vars

\* the calls in progress are calls of encode on one shared Encoder
SharedEncoder(e) == \A d \in Calls : pc[d] # "idle" => fmt[d].encoder = e

\* several encode calls at once on one Encoder, their writes interleaved
NextConc ==
    \E c \in Calls :
        \/ pc[c] = "idle" /\ \E e \in EncoderIds, n \in Values :
              SharedEncoder(e) /\ EncodeCall(c, e, n)
        \/ Write(c)
        \/ Return(c)
        \/ DoRender(c)
        \/ DoRenderInto(c)

SpecConc == Init /\ [][NextConc]_vars

\* a byte sequence of letters of both cases, a digit and a byte over 127
Mixed == <<90, 97, 200, 48>>

Pair == {1, 2}

\* the Formatters of the pair are fed the same bytes
SameInput(src) == \A d \in Pair : pc[d] # "idle" => drv[d].src = src

\* two Formatters, each on an Encoder of its own, fed the same bytes
NextEq ==
    \E c \in Pair :
        \/ pc[c] = "idle" /\ \E e \in EncoderIds, n \in Values :
              SameInput(EncodeInto(n)) /\ EncodeCall(c, e, n)
        \/ pc[c] = "idle" /\ \E e \in EncoderIds :
              SameInput(Mixed) /\ NewDirect(c, e, Mixed, FALSE)
        \/ Write(c)
        \/ Return(c)
        \/ DoRender(c)
        \/ DoRenderInto(c)

SpecEq == Init /\ [][NextEq]_vars

----------------------------------------------------------------------------
(* Properties *)

Active(c) == pc[c] # "idle"

CaseOf(c) == encoders[fmt[c].encoder].case

UpperLetters == 65..90

LowerLetters == 97..122

\* what write is to store for byte u under a case
Expected(case, u) ==
    IF case = "Upper" THEN u ELSE IF u \in UpperLetters THEN u + 32 ELSE u

\* the bytes the driver of call c has passed to write so far
Passed(c) == [i \in 1..drv[c].k |-> Input(drv[c], i)]

HasRendered(c) == rendered[c] # <<>>

HasEmitted(c) == emitted[c] # <<>>

\* C1: under an Encoder built by new() or with_case(Lower), whatever bytes
\* were written, no stored byte and no byte of the rendered string is an
\* upper-case ASCII letter.
C1_LowerHasNoUppercase ==
    \A c \in Calls :
        (Active(c) /\ fmt[c].encoder \in {"new", "lower"}) =>
            /\ \A i \in 1..fmt[c].len : fmt[c].data[i] \notin UpperLetters
            /\ HasRendered(c) =>
                   \A i \in DOMAIN rendered[c][1] : rendered[c][1][i] \notin UpperLetters

\* encode(u64::MAX).render() under Encoder::new(): thirteen symbols, letters among them
C1_Witness ==
    /\ pc[1] = "built"
    /\ fmt[1].encoder = "new"
    /\ drv[1].n = Max64
    /\ fmt[1].len = Capacity
    /\ \E i \in 1..drv[1].k : Input(drv[1], i) \in UpperLetters
    /\ HasRendered(1)

\* C2 as stated: under an upper-case Encoder the rendered string has no
\* lower-case ASCII letter, whatever bytes are passed to write.
C2_UpperHasNoLowercase ==
    \A c \in Calls :
        (Active(c) /\ CaseOf(c) = "Upper" /\ HasRendered(c)) =>
            \A i \in DOMAIN rendered[c][1] : rendered[c][1][i] \notin LowerLetters

\* C2 amended: under an upper-case Encoder write stores every byte as it is
\* passed, so the rendered string has no lower-case ASCII letter when none
\* was passed to write, and has each lower-case letter that was passed.
C2_UpperKeepsWhatIsWritten ==
    \A c \in Calls :
        (Active(c) /\ CaseOf(c) = "Upper") =>
            /\ \A i \in 1..fmt[c].len : fmt[c].data[i] = Passed(c)[i]
            /\ HasRendered(c) =>
                   ((\E i \in DOMAIN rendered[c][1] : rendered[c][1][i] \in LowerLetters)
                       <=> (\E i \in 1..fmt[c].len : Passed(c)[i] \in LowerLetters))

\* thirteen bytes, upper-case letters and none of lower case, written under
\* with_case(Upper) and rendered
C2_Witness ==
    /\ pc[1] = "direct"
    /\ fmt[1].encoder = "upper"
    /\ drv[1].src = <<90, 65>>
    /\ fmt[1].len = Capacity
    /\ rendered[1] = << <<90, 65, 90, 65, 90, 65, 90, 65, 90, 65, 90, 65, 90>> >>

\* the UTF-8 bytes of the string whose chars have the scalar values bs
RECURSIVE Utf8Of(_)
Utf8Of(bs) ==
    IF bs = <<>> THEN <<>>
    ELSE (IF Head(bs) < 128 THEN <<Head(bs)>>
          ELSE <<192 + (Head(bs) \div 64), 128 + (Head(bs) % 64)>>) \o Utf8Of(Tail(bs))

\* the number of chars of a string: its bytes that continue no char
CharCount(s) == Cardinality({i \in DOMAIN s : s[i] \notin 128..191})

Stored(c) == [i \in 1..fmt[c].len |-> fmt[c].data[i]]

\* C3 as stated: the bytes render_into passes to its sink are the bytes of
\* the string render returns, length bytes in all.
C3_EmittedEqualsRenderedBytes ==
    \A c \in Calls :
        (HasRendered(c) /\ HasEmitted(c)) =>
            /\ emitted[c][1] = rendered[c][1]
            /\ Len(rendered[c][1]) = fmt[c].len

\* C3 amended: render_into passes the length stored bytes in storage order;
\* render returns the string of length chars whose scalar values are those
\* bytes, so its UTF-8 bytes are the emitted bytes when every stored byte is
\* below 128, and two bytes per stored byte of 128 or more otherwise.
C3_EmittedAreRenderedChars ==
    \A c \in Calls :
        /\ HasEmitted(c) => emitted[c][1] = Stored(c)
        /\ HasRendered(c) =>
               /\ rendered[c][1] = Utf8Of(Stored(c))
               /\ CharCount(rendered[c][1]) = fmt[c].len
        /\ (HasRendered(c) /\ HasEmitted(c)) =>
               ((\A i \in 1..fmt[c].len : fmt[c].data[i] < 128)
                    <=> emitted[c][1] = rendered[c][1])

\* a full buffer with a byte over 127 in it, rendered both ways
C3_Witness ==
    /\ HasRendered(1)
    /\ HasEmitted(1)
    /\ fmt[1].len = Capacity
    /\ \E i \in 1..Capacity : fmt[1].data[i] >= 128
    /\ Len(rendered[1][1]) > Len(emitted[1][1])

\* C4: the length of every Formatter is at most the capacity of its buffer,
\* after new, after every write or attempted write, after every rendering.
C4_LenWithinCapacity ==
    \A c \in Calls :
        /\ fmt[c].len \in 0..Capacity
        /\ Len(fmt[c].data) = Capacity

\* a fourteenth write has been attempted
C4_Witness ==
    /\ drv[1].k = Capacity + 1
    /\ fmt[1].len = Capacity

\* C5: a write to a full Formatter panics, and a write panics only then; it
\* stores nothing: the thirteen bytes stored are those of the first thirteen
\* writes, the buffer has its thirteen places and the length stays thirteen.
C5_FullWritePanics ==
    \A c \in Calls :
        /\ pc[c] = "panicked" <=> drv[c].k > Capacity
        /\ pc[c] = "panicked" =>
               /\ drv[c].k = Capacity + 1
               /\ fmt[c].len = Capacity
               /\ Len(fmt[c].data) = Capacity
               /\ \A i \in 1..Capacity :
                      fmt[c].data[i] = Expected(CaseOf(c), Input(drv[c], i))

\* the write that panicked carried a byte other than the last one stored
C5_Witness ==
    /\ pc[1] = "panicked"
    /\ Expected(CaseOf(1), Input(drv[1], Capacity + 1)) # fmt[1].data[Capacity]

\* Encoders that the constructors are to configure alike
SameConfig(e1, e2) ==
    \/ {e1, e2} \subseteq {"default", "new", "lower"}
    \/ {e1, e2} \subseteq {"upper", "upper2"}

\* as many of the same bytes have been passed to the two Formatters
SameWrites(c, d) == drv[c].src = drv[d].src /\ drv[c].k = drv[d].k

\* C6: Formatters on Encoders built by default(), new() and
\* with_case(Lower), or on two Encoders built with the same case, hold the
\* same length and bytes after the same writes, and render alike.
C6_SameConfigSameResult ==
    \A c \in Calls, d \in Calls :
        (Active(c) /\ Active(d) /\ SameConfig(fmt[c].encoder, fmt[d].encoder)
            /\ SameWrites(c, d)) =>
            /\ fmt[c].len = fmt[d].len
            /\ fmt[c].data = fmt[d].data
            /\ (HasRendered(c) /\ HasRendered(d)) => rendered[c] = rendered[d]
            /\ (HasEmitted(c) /\ HasEmitted(d)) => emitted[c] = emitted[d]

\* encode(u64::MAX) on Encoder::default() and on with_case(Lower), both rendered
C6_Witness ==
    /\ fmt[1].encoder = "default"
    /\ fmt[2].encoder = "lower"
    /\ pc[1] = "built"
    /\ pc[2] = "built"
    /\ drv[1].n = Max64
    /\ drv[2].n = Max64
    /\ HasRendered(1) /\ HasRendered(2)
    /\ HasEmitted(1) /\ HasEmitted(2)

Lowered(bs) == [i \in DOMAIN bs |-> IF bs[i] \in UpperLetters THEN bs[i] + 32 ELSE bs[i]]

\* C7: encode(5111) renders "4zq" under a lower-case Encoder and "4ZQ" under
\* an upper-case one, by render and by render_into; and after the same
\* writes the bytes of a lower-case Formatter are those of an upper-case one
\* with A..Z turned to a..z, the lengths being equal.
C7_Renders5111 ==
    /\ \A c \in Calls :
           (pc[c] = "built" /\ drv[c].n = V5111) =>
               /\ (CaseOf(c) = "Lower" /\ HasRendered(c)) => rendered[c][1] = <<52, 122, 113>>
               /\ (CaseOf(c) = "Lower" /\ HasEmitted(c)) => emitted[c][1] = <<52, 122, 113>>
               /\ (CaseOf(c) = "Upper" /\ HasRendered(c)) => rendered[c][1] = <<52, 90, 81>>
               /\ (CaseOf(c) = "Upper" /\ HasEmitted(c)) => emitted[c][1] = <<52, 90, 81>>
    /\ \A c \in Calls, d \in Calls :
           (Active(c) /\ Active(d) /\ CaseOf(c) = "Lower" /\ CaseOf(d) = "Upper"
               /\ SameWrites(c, d)) =>
               /\ fmt[c].len = fmt[d].len
               /\ Stored(c) = Lowered(Stored(d))
               /\ (HasEmitted(c) /\ HasEmitted(d)) => emitted[c][1] = Lowered(emitted[d][1])
               /\ (HasRendered(c) /\ HasRendered(d)) => rendered[c][1] = Lowered(rendered[d][1])

\* encode(5111) under both cases, rendered both ways
C7_Witness ==
    /\ pc[1] = "built" /\ pc[2] = "built"
    /\ drv[1].n = V5111 /\ drv[2].n = V5111
    /\ CaseOf(1) = "Lower" /\ CaseOf(2) = "Upper"
    /\ rendered[1] = << <<52, 122, 113>> >>
    /\ emitted[1] = << <<52, 122, 113>> >>
    /\ rendered[2] = << <<52, 90, 81>> >>
    /\ emitted[2] = << <<52, 90, 81>> >>

\* a step that leaves call c where it is and passes no byte to its write:
\* for a built or directly written Formatter, a render or a render_into
NoWriteStep(c) ==
    /\ pc[c] \in {"direct", "built"}
    /\ pc'[c] = pc[c]
    /\ drv'[c] = drv[c]

\* what render has returned and render_into has emitted since the last write
Outputs(c) == {rendered[c][i] : i \in DOMAIN rendered[c]} \cup {emitted[c][i] : i \in DOMAIN emitted[c]}

\* C8 as stated: render and render_into leave the Formatter and its Encoder
\* as they were, and every such call returns or emits the bytes that any
\* earlier call of either returned or emitted.
C8_AllRenderingsAgree ==
    [][\A c \in Calls :
          NoWriteStep(c) =>
              /\ fmt'[c] = fmt[c]
              /\ encoders' = encoders
              /\ \A o1 \in Outputs(c) : \A o2 \in Outputs(c)' : o1 = o2]_vars

\* C8 amended: render and render_into leave the Formatter and its Encoder
\* as they were; every render returns the string the earlier renders
\* returned and every render_into emits the bytes the earlier ones emitted;
\* what render returns and what render_into emits are the same bytes when
\* every stored byte is below 128.
C8_RenderingsLeaveFormatter ==
    [][\A c \in Calls :
          NoWriteStep(c) =>
              /\ fmt'[c] = fmt[c]
              /\ encoders' = encoders
              /\ (HasRendered(c) /\ rendered'[c] # <<>>) => rendered'[c] = rendered[c]
              /\ (HasEmitted(c) /\ emitted'[c] # <<>>) => emitted'[c] = emitted[c]
              /\ (\A i \in 1..fmt[c].len : fmt[c].data[i] < 128) =>
                     \A o1 \in Outputs(c) : \A o2 \in Outputs(c)' : o1 = o2]_vars

\* a Formatter written directly, rendered both ways with bytes in it
C8_Witness ==
    /\ pc[1] = "direct"
    /\ fmt[1].len >= 2
    /\ rendered[1] = <<Utf8Of(Stored(1))>>
    /\ emitted[1] = <<Stored(1)>>

\* C9: with several encode calls in progress on one Encoder, each Formatter
\* holds the bytes its own call has written so far and zeros after them,
\* all of its call's symbols once it is returned; the Encoders are as built.
C9_CallsAreIndependent ==
    /\ encoders = [e \in EncoderIds |-> Construct(e)]
    /\ \A c \in Calls :
           Active(c) =>
               /\ fmt[c].len = drv[c].k
               /\ \A i \in 1..Capacity :
                      fmt[c].data[i] =
                          IF i <= drv[c].k THEN Expected(CaseOf(c), drv[c].src[i]) ELSE 0
               /\ pc[c] = "built" => fmt[c].len = Len(drv[c].src)
               /\ HasEmitted(c) => emitted[c][1] = Stored(c)

\* two calls on one Encoder, both part way through values of their own
C9_Witness ==
    /\ pc[1] = "encoding" /\ pc[2] = "encoding"
    /\ fmt[1].encoder = fmt[2].encoder
    /\ drv[1].n = Max64 /\ drv[2].n = V5111
    /\ drv[1].k = 7 /\ drv[2].k = 2

C10_Inv ==
    \A c \in Calls :
        Active(c) =>
            /\ fmt[c].len = IF drv[c].k <= Capacity THEN drv[c].k ELSE Capacity
            /\ \A i \in 1..fmt[c].len :
                   fmt[c].data[i] = Expected(CaseOf(c), Input(drv[c], i))
            /\ HasEmitted(c) =>
                   emitted[c][1] =
                       [i \in 1..fmt[c].len |-> Expected(CaseOf(c), Input(drv[c], i))]

C10_Step ==
    \A c \in Calls :
        (drv'[c].k = drv[c].k + 1 /\ fmt[c].len < Capacity) =>
            /\ fmt'[c].len = fmt[c].len + 1
            /\ fmt'[c].data[fmt[c].len + 1] =
                   Expected(CaseOf(c), Input(drv[c], drv[c].k + 1))
            /\ \A i \in (1..Capacity) \ {fmt[c].len + 1} :
                   fmt'[c].data[i] = fmt[c].data[i]

\* C10: a write to a Formatter of length k < 13 stores one byte at place k,
\* the byte passed under Upper and else that byte with A..Z turned to a..z,
\* adds one to the length and leaves the other places; so after m writes the
\* Formatter holds, and render_into emits, the m converted bytes in order.
C10_WriteStoresOneByte == []C10_Inv /\ [][C10_Step]_vars

\* thirteen writes of two bytes in turn, an upper-case letter converted
C10_Witness ==
    /\ pc[1] = "direct"
    /\ CaseOf(1) = "Lower"
    /\ fmt[1].len = Capacity
    /\ drv[1].src = <<90, 200>>
    /\ emitted[1] = << <<122, 200, 122, 200, 122, 200, 122, 200, 122, 200, 122, 200, 122>> >>

====
